---- MODULE Spec2Model ----
(***************************************************************************)
(* Real-time metrics store of the Vamos dashboard: the MongoDB collection  *)
(* real_time_metrics, its TTL index, the writers (import_mongo_data.py and *)
(* the live generator of generate_sample_data.py) and the dashboard script *)
(* of app.py (Dashboard construction, the Data Management page and the     *)
(* Live Metrics page).                                                     *)
(*                                                                         *)
(* Time is an integer; one unit stands for one day of wall-clock time, so  *)
(* the 7-day window and the limits 50 / 20 / 20 are scaled down (see the   *)
(* constants below).  device_id is never read by any query and is left     *)
(* out of the records.                                                     *)
(***************************************************************************)
EXTENDS Integers, Sequences, FiniteSets, TLC

VARIABLES
    now,        \* datetime.now(): the wall clock
    store,      \* documents of db.real_time_metrics
    indexes,    \* indexes of db.real_time_metrics (index_information())
    demo_mode,  \* Dashboard.demo_mode of the current script run
    script,     \* position and locals of the Streamlit script run (main)
    gen,        \* the live generator process (start_fast_data_generation)
    sample,     \* the last call of _generate_realistic_value and its result
    refresh_rate, \* the "Refresh rate (seconds)" slider of the session
    sent        \* the records the writers handed over, as the writers held them

vars ==
    <<now, store, indexes, demo_mode, script, gen, sample, refresh_rate, sent>>

----------------------------------------------------------------------------
(* Bounds of the model *)

MaxTime == 2        \* the clock runs over 0..MaxTime
MaxDocs == 3        \* most documents in a store content drawn by InitLive
MaxLiveTime == 1    \* their timestamps are 0..MaxLiveTime
MaxFileDocs == 3    \* most lines of mongo/real_time_metrics.json
MaxDays == 2        \* largest `days` handed to cleanup_old_data
MaxBatches == 1     \* most batches of one run of the live generator
MaxElapsed == 2     \* longest round trip of a batch, in seconds
MaxMicros == 3      \* the timestamps of SpecRoundTrip are 0..MaxMicros

(* Program constants, scaled *)

SevenDays == 1      \* expireAfterSeconds = 7 * 24 * 60 * 60
QueryLimit == 2     \* .limit(50) of get_user_real_time_metrics
TrendLimit == 1     \* .head(20) of the trend charts
DemoCount == 2      \* range(20) of generate_user_demo_metrics
TickInterval == 1   \* the 1.0 second of a tick

(* Program constants: st.slider("Refresh rate (seconds)", 5, 30, 10) *)

RefreshMin == 5
RefreshMax == 30
RefreshDefault == 10

Times == 0..MaxTime

Users == {"user-0001", "user-0002"}

MetricTypeList == <<"heart_rate", "steps", "calories_burned", "active_minutes">>

MetricTypes == {MetricTypeList[i] : i \in 1..Len(MetricTypeList)}

NoUser == "none"

----------------------------------------------------------------------------
(* Values *)

\* the user ids _generate_realistic_value is called with in the model: every
\* remainder of % 40 with the wrap after it, the last of the roster and the
\* two ends of user-NNNN; with int(user_id.split('-')[1]) of each
UserTable ==
    ("user-0000" :> 0) @@ ("user-0001" :> 1) @@ ("user-0002" :> 2)
        @@ ("user-0003" :> 3) @@ ("user-0004" :> 4) @@ ("user-0005" :> 5)
        @@ ("user-0006" :> 6) @@ ("user-0007" :> 7) @@ ("user-0008" :> 8)
        @@ ("user-0009" :> 9) @@ ("user-0010" :> 10) @@ ("user-0011" :> 11)
        @@ ("user-0012" :> 12) @@ ("user-0013" :> 13) @@ ("user-0014" :> 14)
        @@ ("user-0015" :> 15) @@ ("user-0016" :> 16) @@ ("user-0017" :> 17)
        @@ ("user-0018" :> 18) @@ ("user-0019" :> 19) @@ ("user-0020" :> 20)
        @@ ("user-0021" :> 21) @@ ("user-0022" :> 22) @@ ("user-0023" :> 23)
        @@ ("user-0024" :> 24) @@ ("user-0025" :> 25) @@ ("user-0026" :> 26)
        @@ ("user-0027" :> 27) @@ ("user-0028" :> 28) @@ ("user-0029" :> 29)
        @@ ("user-0030" :> 30) @@ ("user-0031" :> 31) @@ ("user-0032" :> 32)
        @@ ("user-0033" :> 33) @@ ("user-0034" :> 34) @@ ("user-0035" :> 35)
        @@ ("user-0036" :> 36) @@ ("user-0037" :> 37) @@ ("user-0038" :> 38)
        @@ ("user-0039" :> 39) @@ ("user-0040" :> 40) @@ ("user-0041" :> 41)
        @@ ("user-0500" :> 500) @@ ("user-9999" :> 9999)

RosterSample == DOMAIN UserTable

UserNum(user_id) == UserTable[user_id]

Max(a, b) == IF a >= b THEN a ELSE b

Min(a, b) == IF a <= b THEN a ELSE b

\* the base of _generate_realistic_value
Base(user_id) == (UserNum(user_id) % 40) + 60

\* the arguments of random.randint in _generate_realistic_value
RangeLoFifth(user_id, metric_type) ==
    LET base == Base(user_id) IN
    CASE metric_type = "heart_rate" -> base
      [] metric_type = "steps" -> Max(0, base - 40)
      [] metric_type = "calories_burned" -> Max(1, base \div 5)
      [] metric_type = "active_minutes" -> Max(1, base \div 30)
      [] OTHER -> 0

RangeLo(user_id, metric_type) ==
    LET base == Base(user_id) IN
    CASE metric_type = "heart_rate" -> base
      [] metric_type = "steps" -> Max(0, base - 40)
      [] metric_type = "calories_burned" -> Max(1, base \div 15)
      [] metric_type = "active_minutes" -> Max(1, base \div 30)
      [] OTHER -> 0

RangeHiShared(user_id, metric_type) ==
    LET base == Base(user_id) IN
    CASE metric_type = "heart_rate" -> base + 20
      [] metric_type = "steps" -> base + 20
      [] metric_type = "calories_burned" -> base \div 8
      [] metric_type = "active_minutes" -> base \div 20
      [] OTHER -> 0

RangeHi(user_id, metric_type) ==
    LET base == Base(user_id) IN
    CASE metric_type = "heart_rate" -> base + 20
      [] metric_type = "steps" -> base
      [] metric_type = "calories_burned" -> base \div 8
      [] metric_type = "active_minutes" -> base \div 20
      [] OTHER -> 0

\* the outcome of a call that raised ValueError instead of returning
ValueError == 0 - 1

\* random.randint(a, b): any integer of the closed range; raises ValueError
\* for an empty range
RandInt(a, b) == IF a > b THEN {ValueError} ELSE a..b

\* _generate_realistic_value: the draw of the metric type's range, 0 for a
\* metric type without a range
GenerateRealisticValue(user_id, metric_type) ==
    IF metric_type \in MetricTypes
    THEN RandInt(RangeLo(user_id, metric_type), RangeHi(user_id, metric_type))
    ELSE {0}

\* the metric types _generate_realistic_value is called with in the model:
\* the four of the generator and one it has no range for
CalledTypes == MetricTypes \cup {"blood_pressure"}

NoSample == [user_id |-> NoUser, metric_type |-> "none", value |-> 0]

\* a call _generate_realistic_value(user_id, metric_type) and what it returns
GenerateValue(user_id, metric_type, value) ==
    /\ value \in GenerateRealisticValue(user_id, metric_type)
    /\ sample' = [user_id |-> user_id, metric_type |-> metric_type,
                  value |-> value]
    /\ UNCHANGED <<sent, now, store, indexes, demo_mode, script, gen,
                   refresh_rate>>

\* the draws of one batch the model follows: every record at the low end of
\* its range, or every record at the high end
BatchDraws == {"lo", "hi"}

DrawValue(draw, user_id, metric_type) ==
    IF draw = "lo" THEN RangeLo(user_id, metric_type)
    ELSE RangeHi(user_id, metric_type)

\* values and session ids of the documents of an imported file
FileValues == {70}

FileSessions == {1000}

\* random.randint(60, 180) if ... else random.randint(0, 50): the value of a
\* demo row does not depend on its metric type
DemoValueRange == (60..180) \cup (0..50)

\* the draw of it the model follows: the largest
DemoValues == {v \in DemoValueRange : \A w \in DemoValueRange : w <= v}

----------------------------------------------------------------------------
(* Documents *)

Doc(u, t, v, ts, s) ==
    [user_id |-> u, metric_type |-> t, value |-> v, timestamp |-> ts,
     session_id |-> s]

\* the documents with a timestamp of `times` that a writer can store
DocsAt(times) ==
    {Doc(u, t, v, ts, s) :
        u \in Users, t \in MetricTypes, v \in FileValues, ts \in times,
        s \in FileSessions}

\* the sets of at most n documents of `docs`
RECURSIVE ContentsUpTo(_, _)
ContentsUpTo(n, docs) ==
    IF n = 0 THEN {{}}
    ELSE LET smaller == ContentsUpTo(n - 1, docs)
         IN  smaller \cup {c \cup {d} : c \in smaller, d \in docs}

----------------------------------------------------------------------------
(* The store's operations (pymongo calls of the source) *)

\* {"timestamp": {"$lt": cutoff_date}}
OlderThanLte(doc, cutoff) == doc.timestamp <= cutoff

OlderThan(doc, cutoff) == doc.timestamp < cutoff

\* count_documents({"timestamp": {"$lt": cutoff}})
CountOlder(docs, cutoff) == Cardinality({d \in docs : OlderThan(d, cutoff)})

\* delete_many({"timestamp": {"$lt": cutoff}}): the documents left
DeleteOlder(docs, cutoff) == {d \in docs : ~OlderThan(d, cutoff)}

TTLIndex(seconds) ==
    [name |-> "timestamp_1", key |-> "timestamp", expireAfterSeconds |-> seconds]

\* create_index("timestamp", expireAfterSeconds=seconds): an index with the
\* same key and options is left as it is; one with the same key and other
\* options makes the server refuse the call (the caller sees an exception)
CreateIndexStrict(idx, seconds) ==
    IF idx = {} THEN [indexes |-> {TTLIndex(seconds)}, raised |-> FALSE]
    ELSE [indexes |-> idx, raised |-> TRUE]

CreateIndex(idx, seconds) ==
    LET same == {i \in idx : i.key = "timestamp"} IN
    IF same = {} THEN
        [indexes |-> idx \cup {TTLIndex(seconds)}, raised |-> FALSE]
    ELSE IF \E i \in same : i.expireAfterSeconds = seconds THEN
        [indexes |-> idx, raised |-> FALSE]
    ELSE
        [indexes |-> idx, raised |-> TRUE]

\* the window every install site asks for
InstallWindowWrong == SevenDays + 1

InstallWindow == SevenDays

\* the documents the TTL monitor may delete
ExpiredLate(docs, idx) ==
    {d \in docs : \E i \in idx : d.timestamp + i.expireAfterSeconds < now}

Expired(docs, idx) ==
    {d \in docs : \E i \in idx : d.timestamp + i.expireAfterSeconds <= now}

----------------------------------------------------------------------------
(* The dashboard script: main() of app.py *)

None == <<>>

NoStats == [total_records |-> 0, oldest_record |-> None]

\* the locals of a script run that has not called anything yet
Fresh(pc) ==
    [pc |-> pc, install |-> "none", had_index |-> FALSE,
     stats |-> NoStats, days |-> 0, cutoff |-> 0, count_before |-> 0,
     result |-> 0, failed |-> FALSE, store_ops |-> 0,
     user |-> NoUser, rows |-> <<>>, branch |-> "none",
     waited |-> 0, trigger |-> "none",
     pg_ok |-> FALSE, mongo_tried |-> FALSE, has_mongo_db |-> FALSE]

\* self.demo_mode after init_connections: False only at the end of the inner
\* try, which is reached when psycopg2.connect and the MongoDB ping (with the
\* count of user_metrics) both succeed
DemoModeIgnoresPg(pg_ok, ping_ok) == ~ping_ok

DemoMode(pg_ok, ping_ok) == ~(pg_ok /\ ping_ok)

\* Dashboard(): init_connections, then setup_data_retention.  pg_ok and
\* ping_ok tell whether psycopg2.connect and the MongoDB ping succeed, idx_ok
\* whether the server can be reached by create_index.  MongoDB is tried, and
\* self.mongo_db set, only after PostgreSQL has connected.
Construct(pg_ok, ping_ok, idx_ok) ==
    /\ script.pc = "start"
    /\ demo_mode' = DemoMode(pg_ok, ping_ok)
    /\ LET made == CreateIndex(indexes, InstallWindow)
           connected == [Fresh("routing") EXCEPT !.pg_ok = pg_ok,
                                                 !.mongo_tried = pg_ok,
                                                 !.has_mongo_db = pg_ok]
       IN
       IF DemoMode(pg_ok, ping_ok) THEN
           /\ indexes' = indexes
           /\ script' = [connected EXCEPT !.install = "skipped"]
       ELSE IF ~idx_ok THEN
           /\ indexes' = indexes
           /\ script' = [connected EXCEPT !.install = "unreachable"]
       ELSE
           /\ indexes' = made.indexes
           /\ script' = [connected EXCEPT
                            !.install = IF made.raised THEN "refused" ELSE "ok",
                            !.had_index = (indexes # {})]
    /\ UNCHANGED <<sent, sample, refresh_rate, now, store, gen>>

\* find_one({}, sort=[("timestamp", 1)]) and oldest["timestamp"]
NewestTimestamp(docs) ==
    IF docs = {} THEN None
    ELSE <<CHOOSE ts \in {d.timestamp : d \in docs} :
               \A d \in docs : ts >= d.timestamp>>

OldestTimestamp(docs) ==
    IF docs = {} THEN None
    ELSE <<CHOOSE ts \in {d.timestamp : d \in docs} :
               \A d \in docs : ts <= d.timestamp>>

\* get_data_stats, up to its count_documents({})
StatsBegin(ok) ==
    /\ script.pc = "routing"
    /\ IF demo_mode THEN
           script' = Fresh("stats_done")
       ELSE IF ~ok THEN
           script' = [Fresh("stats_done") EXCEPT !.failed = TRUE]
       ELSE
           script' = [Fresh("stats_counted") EXCEPT
                         !.stats = [total_records |-> Cardinality(store),
                                    oldest_record |-> None]]
    /\ UNCHANGED <<sent, sample, refresh_rate, now, store, indexes,
                   demo_mode, gen>>

\* what get_data_stats returns when find_one raises
StatsOnErrorKeepsTotal(stats) == stats

StatsOnError(stats) == NoStats

\* get_data_stats, from its find_one to its return
StatsOldest(ok) ==
    /\ script.pc = "stats_counted"
    /\ IF ~ok THEN
           script' = [script EXCEPT !.pc = "stats_done",
                                    !.stats = StatsOnError(script.stats),
                                    !.failed = TRUE]
       ELSE
           script' = [script EXCEPT
                         !.pc = "stats_done",
                         !.stats = [total_records |-> script.stats.total_records,
                                    oldest_record |-> OldestTimestamp(store)]]
    /\ UNCHANGED <<sent, sample, refresh_rate, now, store, indexes,
                   demo_mode, gen>>

\* the values of `days` cleanup_old_data is called with: the method takes any
\* integer; the slider of the Data Management page hands it 1..30
DaysInput == (0 - 1)..MaxDays

\* if count_before > 0: whether delete_many is issued
ShouldDeleteAlways(count_before) == TRUE

ShouldDelete(count_before) == count_before > 0

\* cleanup_old_data, up to its count_documents
CleanupBegin(days, ok) ==
    /\ script.pc = "stats_done"
    /\ LET call == [Fresh("cleanup_done") EXCEPT !.days = days]
           cutoff_date == now - days
           count_before == CountOlder(store, cutoff_date)
       IN  IF demo_mode THEN
               script' = call
           ELSE IF ~ok THEN
               script' = [call EXCEPT !.failed = TRUE, !.store_ops = 1]
           ELSE IF ShouldDelete(count_before) THEN
               script' = [call EXCEPT !.pc = "cleanup_counted",
                                      !.cutoff = cutoff_date,
                                      !.count_before = count_before,
                                      !.store_ops = 1]
           ELSE
               script' = [call EXCEPT !.cutoff = cutoff_date, !.store_ops = 1]
    /\ UNCHANGED <<sent, sample, refresh_rate, now, store, indexes,
                   demo_mode, gen>>

\* what cleanup_old_data returns when delete_many raises
CleanupOnErrorReturnsCount(count_before) == count_before

CleanupOnError(count_before) == 0

\* result.deleted_count of delete_many: the documents that call removed
DeletedCountStale(docs, cutoff) == script.count_before

DeletedCount(docs, cutoff) ==
    Cardinality(docs) - Cardinality(DeleteOlder(docs, cutoff))

\* cleanup_old_data, from its delete_many to its return
CleanupDelete(ok) ==
    /\ script.pc = "cleanup_counted"
    /\ IF ~ok THEN
           /\ store' = store
           /\ script' = [script EXCEPT
                            !.pc = "cleanup_done",
                            !.result = CleanupOnError(script.count_before),
                            !.failed = TRUE,
                            !.store_ops = 2]
       ELSE
           /\ store' = DeleteOlder(store, script.cutoff)
           /\ script' = [script EXCEPT
                            !.pc = "cleanup_done",
                            !.result = DeletedCount(store, script.cutoff),
                            !.store_ops = 2]
    /\ UNCHANGED <<sent, sample, refresh_rate, now, indexes, demo_mode, gen>>

\* the script run ends; the next interaction runs main() again
ScriptEnd ==
    /\ script.pc \in {"stats_done", "cleanup_done"}
    /\ script' = Fresh("start")
    /\ UNCHANGED <<sent, sample, refresh_rate, now, store, indexes,
                   demo_mode, gen>>

----------------------------------------------------------------------------
(* The Live Metrics page: show_live_metrics of app.py *)

\* generate_user_demo_metrics: DemoCount rows of the user, each with a random
\* metric type and a random value.  The rows are 3 seconds apart, which is
\* below the unit of the clock: they all carry `now`, newest first.
GenerateUserDemoMetrics(user_id) ==
    {[i \in 1..DemoCount |->
         Doc(user_id, pick[i][1], pick[i][2], now, 1000)] :
        pick \in [1..DemoCount -> MetricTypes \X DemoValues]}

\* docs.sort("timestamp", -1): every order of the documents that is
\* descending by timestamp (the server does not fix the order of ties)
RECURSIVE SortDescending(_)
SortDescending(docs) ==
    IF docs = {} THEN {<<>>}
    ELSE UNION {{<<d>> \o rest : rest \in SortDescending(docs \ {d})} :
                   d \in {x \in docs : \A y \in docs : x.timestamp >= y.timestamp}}

RECURSIVE SortAscending(_)
SortAscending(docs) ==
    IF docs = {} THEN {<<>>}
    ELSE UNION {{<<d>> \o rest : rest \in SortAscending(docs \ {d})} :
                   d \in {x \in docs : \A y \in docs : x.timestamp <= y.timestamp}}

Limit(rows, n) == SubSeq(rows, 1, Min(Len(rows), n))

\* find({"user_id": user_id}).sort("timestamp", -1).limit(50)
FindRecentAscending(docs, user_id) ==
    {Limit(s, QueryLimit) :
        s \in SortAscending({d \in docs : d.user_id = user_id})}

FindRecent(docs, user_id) ==
    {Limit(s, QueryLimit) :
        s \in SortDescending({d \in docs : d.user_id = user_id})}

\* get_user_real_time_metrics, given what find returned (found), what the
\* demo supplier would return (demo) and whether the server answered (ok):
\* the rows returned and the branch of the method that returned them
GetUserRealTimeMetricsNoFallback(demo, ok, found, demo_rows) ==
    IF demo THEN [rows |-> demo_rows, branch |-> "demo"]
    ELSE IF ~ok THEN [rows |-> demo_rows, branch |-> "error"]
    ELSE IF found = <<>> THEN [rows |-> <<>>, branch |-> "empty"]
    ELSE [rows |-> found, branch |-> "store"]

GetUserRealTimeMetricsEmptyOnError(demo, ok, found, demo_rows) ==
    IF demo THEN [rows |-> demo_rows, branch |-> "demo"]
    ELSE IF ~ok THEN [rows |-> <<>>, branch |-> "error"]
    ELSE IF found = <<>> THEN [rows |-> demo_rows, branch |-> "empty"]
    ELSE [rows |-> found, branch |-> "store"]

GetUserRealTimeMetrics(demo, ok, found, demo_rows) ==
    IF demo THEN [rows |-> demo_rows, branch |-> "demo"]
    ELSE IF ~ok THEN [rows |-> demo_rows, branch |-> "error"]
    ELSE IF found = <<>> THEN [rows |-> demo_rows, branch |-> "empty"]
    ELSE [rows |-> found, branch |-> "store"]

\* user_metrics_df[user_metrics_df['metric_type'] == metric_type]
OfType(rows, metric_type) ==
    SelectSeq(rows, LAMBDA r : r.metric_type = metric_type)

\* get_latest_user_metrics: for each of the four types with a row, the first
\* row of that type
GetLatestUserMetrics(rows) ==
    [t \in {m \in MetricTypes : OfType(rows, m) # <<>>} |->
        LET latest == OfType(rows, t)[1]
        IN  [value |-> latest.value, timestamp |-> latest.timestamp]]

\* the metric cards of show_live_metrics: a type found in latest_metrics is
\* shown with status "Live", any other with a random default and "Simulated"
MetricCards(rows) ==
    LET latest_metrics == GetLatestUserMetrics(rows) IN
    [t \in MetricTypes |->
        IF t \in DOMAIN latest_metrics
        THEN [status |-> "Live", shown |-> <<latest_metrics[t]>>]
        ELSE [status |-> "Simulated", shown |-> <<>>]]

\* user_real_time_metrics[... == metric_type].head(20)
Trend(rows, metric_type) == Limit(OfType(rows, metric_type), TrendLimit)

\* show_live_metrics up to its rendering: the query for the selected user
LiveQuery(user_id, ok) ==
    /\ script.pc = "routing"
    /\ \E found \in FindRecent(store, user_id),
          demo_rows \in GenerateUserDemoMetrics(user_id) :
          LET got == GetUserRealTimeMetrics(demo_mode, ok, found, demo_rows)
          IN  script' = [Fresh("live") EXCEPT
                                       !.user = user_id,
                                       !.rows = got.rows,
                                       !.branch = got.branch,
                                       !.failed = (got.branch = "error")]
    /\ UNCHANGED <<sent, sample, refresh_rate, now, store, indexes,
                   demo_mode, gen>>

\* time.sleep(refresh_rate); st.rerun()
LiveRefresh ==
    /\ script.pc = "live"
    /\ script' = Fresh("start")
    /\ UNCHANGED <<sent, sample, refresh_rate, now, store, indexes,
                   demo_mode, gen>>

\* the end of show_live_metrics, in steps: the page is rendered and
\* time.sleep(refresh_rate) begins
LiveSleep ==
    /\ script.pc = "live"
    /\ script' = [script EXCEPT !.pc = "sleeping", !.waited = 0]
    /\ UNCHANGED <<sent, sample, refresh_rate, now, store, indexes,
                   demo_mode, gen>>

\* whether time.sleep(refresh_rate) returns after `waited` seconds
SleepDoneAtOnce(waited, rate) == TRUE

SleepDone(waited, rate) == waited >= rate

\* a second of the sleep goes by
LiveWait ==
    /\ script.pc = "sleeping"
    /\ ~SleepDone(script.waited, refresh_rate)
    /\ script' = [script EXCEPT !.waited = @ + 1]
    /\ UNCHANGED <<sent, sample, refresh_rate, now, store, indexes,
                   demo_mode, gen>>

\* the sleep has returned: st.rerun() starts the next script run
LiveRerun ==
    /\ script.pc = "sleeping"
    /\ SleepDone(script.waited, refresh_rate)
    /\ script' = [Fresh("start") EXCEPT !.trigger = "auto"]
    /\ UNCHANGED <<sent, sample, refresh_rate, now, store, indexes,
                   demo_mode, gen>>

\* the user moves the slider (to a value the widget offers) or presses
\* "Manual Refresh" (the slider keeps its value): the running script is
\* ended and the script runs again
Interact(rate) ==
    /\ script.pc \in {"live", "sleeping"}
    /\ refresh_rate' = rate
    /\ script' = [Fresh("start") EXCEPT !.trigger = "user"]
    /\ UNCHANGED <<sent, sample, now, store, indexes, demo_mode, gen>>

----------------------------------------------------------------------------
(* The writers and the clock *)

\* the generator before its first run
GenStopped ==
    [pc |-> "stopped", batch_count |-> 0, written |-> 0, install |-> "none",
     exit |-> "none", elapsed |-> 0, sleep |-> 0]

\* start_fast_data_generation up to its loop: create_index, batch_count = 0.
\* An exception ends the function before the loop.
GeneratorStart(ok) ==
    /\ gen.pc = "stopped"
    /\ LET made == CreateIndex(indexes, InstallWindow) IN
       IF ~ok THEN
           /\ indexes' = indexes
           /\ gen' = [GenStopped EXCEPT !.install = "unreachable",
                                        !.exit = "error"]
       ELSE IF made.raised THEN
           /\ indexes' = indexes
           /\ gen' = [GenStopped EXCEPT !.install = "refused",
                                        !.exit = "error"]
       ELSE
           /\ indexes' = made.indexes
           /\ gen' = [GenStopped EXCEPT !.pc = "running", !.install = "ok"]
    /\ UNCHANGED <<sent, sample, refresh_rate, now, store, demo_mode, script>>

\* one record per user of the roster and metric type, all with current_time
BatchDataShortRoster(draw, batch_count) ==
    {Doc(u, t, DrawValue(draw, u, t), now, batch_count) :
        u \in Users \ {"user-0002"}, t \in MetricTypes}

BatchData(draw, batch_count) ==
    {Doc(u, t, DrawValue(draw, u, t), now, batch_count) :
        u \in Users, t \in MetricTypes}

\* total_records = batch_count * 2000  # 500 users * 4 metrics
BatchSize == Cardinality(Users) * Len(MetricTypeList)

\* insert_many(batch): every document of the batch is added (the server gives
\* each its own _id; in the model the documents of two calls differ in
\* timestamp or session_id)
InsertManyReplacing(docs, batch) ==
    {d \in docs : \A b \in batch :
        ~(b.user_id = d.user_id /\ b.metric_type = d.metric_type)} \cup batch

InsertMany(docs, batch) == docs \cup batch

\* the first half of a loop iteration: batch_data is built and, if it is not
\* empty, handed to insert_many, which the server carries out.  An exception
\* of insert_many ends the generator.  `written` counts the documents this run
\* has put into the collection.  The loop sleeps to the next second, so no two
\* batches carry the same current_time.
GeneratorInsert(draw, ok) ==
    /\ gen.pc = "running"
    /\ gen.batch_count < MaxBatches
    /\ \A d \in store : d.timestamp = now => d.session_id \in FileSessions
    /\ LET batch_data == BatchData(draw, gen.batch_count) IN
       IF batch_data = {} THEN
           UNCHANGED <<store, gen>>
       ELSE IF ok THEN
           /\ store' = InsertMany(store, batch_data)
           /\ gen' = [gen EXCEPT !.pc = "inserting",
                                 !.written = @ + Cardinality(batch_data)]
       ELSE
           /\ store' = store
           /\ gen' = [gen EXCEPT !.pc = "stopped", !.install = "none",
                                 !.exit = "error"]
    /\ UNCHANGED <<sent, sample, refresh_rate, now, indexes, demo_mode,
                   script>>

\* 1.0 - (time.time() - batch_start), clamped by max(0, ...)
SleepDurationUnclamped(elapsed) == TickInterval - elapsed

SleepDuration(elapsed) == Max(0, TickInterval - elapsed)

\* the second half: insert_many has returned, batch_count += 1, the batch is
\* printed and the loop sleeps for what is left of the tick.  elapsed is
\* the time since batch_start.  time.sleep raises ValueError for a negative
\* argument, which ends the generator like any other exception.
GeneratorCount(elapsed) ==
    /\ gen.pc = "inserting"
    /\ LET counted == [gen EXCEPT !.batch_count = @ + 1,
                                  !.elapsed = elapsed,
                                  !.sleep = SleepDuration(elapsed)]
       IN  IF SleepDuration(elapsed) < 0 THEN
               gen' = [counted EXCEPT !.pc = "stopped", !.install = "none",
                                      !.exit = "sleep_error"]
           ELSE
               gen' = [counted EXCEPT !.pc = "running"]
    /\ UNCHANGED <<sent, sample, refresh_rate, now, store, indexes,
                   demo_mode, script>>

\* KeyboardInterrupt: Ctrl+C raises it in the main thread wherever the loop
\* is, in its sleep or inside insert_many after the batch was sent.  The
\* handler prints batch_count and batch_count * 2000.
GeneratorStop ==
    /\ gen.pc \in {"running", "inserting"}
    /\ gen' = [gen EXCEPT !.pc = "stopped", !.install = "none",
                          !.exit = "interrupt", !.elapsed = 0, !.sleep = 0]
    /\ UNCHANGED <<sent, sample, refresh_rate, now, store, indexes,
                   demo_mode, script>>

\* json.dumps(doc, default=str) of save_data writes the timestamp as a string,
\* datetime.fromisoformat of import_mongo_data reads it back
Str(ts) == <<"iso", ts>>

FromIsoFormat(text) == text[2]

FileLine(doc) == [doc EXCEPT !.timestamp = Str(doc.timestamp)]

\* json.loads(line) and the conversion of its timestamp string (every
\* timestamp of the file is a string: JSON has no datetime)
ParseLine(line) == [line EXCEPT !.timestamp = FromIsoFormat(line.timestamp)]

\* import_mongo_data for the real_time_metrics part: drop the collection,
\* insert the documents of the file, create the TTL index.  failure names the
\* call that raises: the function then returns False at once.
ImportMongoData(docs, failure) ==
    /\ LET made == CreateIndex({}, InstallWindow) IN
       CASE failure = "connect" ->
                /\ store' = store
                /\ indexes' = indexes
         [] failure = "insert" ->
                /\ store' = {}
                /\ indexes' = {}
         [] failure = "index" ->
                /\ store' = {ParseLine(FileLine(d)) : d \in docs}
                /\ indexes' = {}
         [] OTHER ->
                /\ store' = {ParseLine(FileLine(d)) : d \in docs}
                /\ indexes' = made.indexes
    /\ UNCHANGED <<sent, sample, refresh_rate, now, demo_mode, script, gen>>

\* a line of the file that is valid JSON but no metric record of the four
\* types: json.loads accepts it (only JSONDecodeError skips a line)
MalformedDocs == {Doc("user-0001", "blood_pressure", 70, 0, 1000)}

\* the files the model imports: at most MaxFileDocs lines, documents of one
\* user and one metric type with any timestamp and the malformed line
ImportFiles ==
    ContentsUpTo(MaxFileDocs,
                 {d \in DocsAt(Times) :
                     d.user_id = "user-0001" /\ d.metric_type = "heart_rate"}
                 \cup MalformedDocs)

\* the files of at most one line among them
ShortFiles == {docs \in ImportFiles : Cardinality(docs) <= 1}

ImportFailures == {"none", "connect", "insert", "index"}

\* the server's TTL monitor: a pass deletes the expired documents
TTLExpire ==
    /\ Expired(store, indexes) # {}
    /\ store' = store \ Expired(store, indexes)
    /\ UNCHANGED <<sent, sample, refresh_rate, now, indexes, demo_mode,
                   script, gen>>

ClockTick ==
    /\ now < MaxTime
    /\ now' = now + 1
    /\ UNCHANGED <<sent, sample, refresh_rate, store, indexes, demo_mode,
                   script, gen>>

\* microseconds in a millisecond (1000), scaled
MicrosPerMilli == 2

\* what insert_one and insert_many store of a document: a BSON datetime holds
\* whole milliseconds, the driver drops the microseconds below.  (The other
\* specifications count time in whole units of their clock, which the store
\* keeps as they are; the timestamps of LiveBatch and FileRoundTrip count
\* microseconds.)
BsonEncodeCoarse(doc) ==
    [doc EXCEPT !.timestamp = @ - (@ % (2 * MicrosPerMilli))]

BsonEncode(doc) == [doc EXCEPT !.timestamp = @ - (@ % MicrosPerMilli)]

\* a batch of the live generator with current_time = datetime.now() in
\* microseconds, handed to insert_many (the model follows one batch)
LiveBatch(current_time, draw) ==
    /\ \A d \in sent : d.session_id \in FileSessions
    /\ LET batch_data == {[d EXCEPT !.timestamp = current_time] :
                             d \in BatchData(draw, 0)}
       IN  /\ store' = InsertMany(store, {BsonEncode(d) : d \in batch_data})
           /\ sent' = sent \cup batch_data
    /\ UNCHANGED <<now, indexes, demo_mode, script, gen, sample, refresh_rate>>

\* records of generate_mongo_data written to mongo/real_time_metrics.json by
\* save_data and imported by import_mongo_data: the collection is dropped,
\* each line is parsed and handed to insert_one
FileRoundTrip(docs) ==
    /\ store' = {BsonEncode(ParseLine(FileLine(d))) : d \in docs}
    /\ sent' = sent \cup docs
    /\ UNCHANGED <<now, indexes, demo_mode, script, gen, sample, refresh_rate>>

\* the files of the round trip: one record of a user, with any timestamp
RoundTripFiles ==
    {{Doc("user-0001", "heart_rate", v, ts, s)} :
        v \in FileValues, ts \in 0..MaxMicros, s \in FileSessions}

----------------------------------------------------------------------------
(* Specifications *)

\* before the first script run: an empty collection without indexes
Init ==
    /\ now = 0
    /\ store = {}
    /\ indexes = {}
    /\ demo_mode = TRUE
    /\ script = Fresh("start")
    /\ gen = GenStopped
    /\ sample = NoSample
    /\ refresh_rate = RefreshDefault
    /\ sent = {}

Next ==
    \/ \E pg_ok \in BOOLEAN, ping_ok \in BOOLEAN, idx_ok \in BOOLEAN :
          Construct(pg_ok, ping_ok, idx_ok)
    \/ \E ok \in BOOLEAN : StatsBegin(ok)
    \/ \E ok \in BOOLEAN : StatsOldest(ok)
    \/ \E days \in DaysInput, ok \in BOOLEAN : CleanupBegin(days, ok)
    \/ \E ok \in BOOLEAN : CleanupDelete(ok)
    \/ ScriptEnd
    \/ \E ok \in BOOLEAN : GeneratorStart(ok)
    \/ GeneratorStop
    \/ \E docs \in ImportFiles, failure \in ImportFailures :
          ImportMongoData(docs, failure)
    \/ TTLExpire
    \/ ClockTick

\* the dashboard's Data Management page, the import, the start and stop of
\* the live generator, the TTL monitor and the clock
Spec == Init /\ [][Next]_vars

\* the live generator and the import of a short file with the TTL monitor
\* and the clock
NextGen ==
    \/ \E ok \in BOOLEAN : GeneratorStart(ok)
    \/ \E draw \in BatchDraws, ok \in BOOLEAN : GeneratorInsert(draw, ok)
    \/ \E elapsed \in 0..MaxElapsed : GeneratorCount(elapsed)
    \/ GeneratorStop
    \/ \E docs \in ShortFiles, failure \in ImportFailures :
          ImportMongoData(docs, failure)
    \/ TTLExpire
    \/ ClockTick

SpecGen == Init /\ [][NextGen]_vars

\* the same, with the server's TTL monitor running its passes for ever
SpecGenFair == SpecGen /\ WF_vars(TTLExpire)

\* the value rule of the generator on its own: every call with a user id of
\* RosterSample and a metric type, and every value the call can return
NextValue ==
    \E user_id \in RosterSample, metric_type \in CalledTypes :
        \E value \in GenerateRealisticValue(user_id, metric_type) :
            GenerateValue(user_id, metric_type, value)

SpecValue == Init /\ [][NextValue]_vars

\* the two writers and the Live Metrics page, with timestamps in microseconds
NextRoundTrip ==
    \/ \E pg_ok \in BOOLEAN, ping_ok \in BOOLEAN, idx_ok \in BOOLEAN :
          Construct(pg_ok, ping_ok, idx_ok)
    \/ \E user_id \in Users, ok \in BOOLEAN : LiveQuery(user_id, ok)
    \/ LiveRefresh
    \/ \E current_time \in 0..MaxMicros, draw \in BatchDraws :
          LiveBatch(current_time, draw)
    \/ \E docs \in RoundTripFiles : FileRoundTrip(docs)

SpecRoundTrip == Init /\ [][NextRoundTrip]_vars

\* the refresh cycle of the Live Metrics page of a dashboard without data
NextRefresh ==
    \/ \E pg_ok \in BOOLEAN, ping_ok \in BOOLEAN, idx_ok \in BOOLEAN :
          Construct(pg_ok, ping_ok, idx_ok)
    \/ \E user_id \in Users, ok \in BOOLEAN : LiveQuery(user_id, ok)
    \/ LiveSleep
    \/ LiveWait
    \/ LiveRerun
    \/ \E rate \in RefreshMin..RefreshMax : Interact(rate)

SpecRefresh == Init /\ [][NextRefresh]_vars

\* the Live Metrics page over every content of the collection of at most
\* MaxDocs documents, with the TTL index in place
InitLive ==
    /\ now = MaxLiveTime
    /\ store \in ContentsUpTo(MaxDocs, DocsAt(0..MaxLiveTime))
    /\ indexes = {TTLIndex(InstallWindow)}
    /\ demo_mode = TRUE
    /\ script = Fresh("start")
    /\ gen = GenStopped
    /\ sample = NoSample
    /\ refresh_rate = RefreshDefault
    /\ sent = {}

NextLive ==
    \/ \E pg_ok \in BOOLEAN, ping_ok \in BOOLEAN, idx_ok \in BOOLEAN :
          Construct(pg_ok, ping_ok, idx_ok)
    \/ \E user_id \in Users, ok \in BOOLEAN : LiveQuery(user_id, ok)
    \/ LiveRefresh

SpecLive == InitLive /\ [][NextLive]_vars

\* the Data Management page and the Live Metrics page over every such content
\* of the collection, with no writer beside the dashboard
NextPages ==
    \/ \E pg_ok \in BOOLEAN, ping_ok \in BOOLEAN, idx_ok \in BOOLEAN :
          Construct(pg_ok, ping_ok, idx_ok)
    \/ \E ok \in BOOLEAN : StatsBegin(ok)
    \/ \E ok \in BOOLEAN : StatsOldest(ok)
    \/ \E days \in DaysInput, ok \in BOOLEAN : CleanupBegin(days, ok)
    \/ \E ok \in BOOLEAN : CleanupDelete(ok)
    \/ ScriptEnd
    \/ \E user_id \in Users, ok \in BOOLEAN : LiveQuery(user_id, ok)
    \/ LiveRefresh

SpecPages == InitLive /\ [][NextPages]_vars


----------------------------------------------------------------------------
(* Claims about the manual purge and the retention rule (under Spec) *)

\* C1: the delete of cleanup_old_data removes exactly the documents with
\* timestamp < cutoff, where cutoff = now - days was taken when the call
\* began: afterwards none of them is left and every document with
\* timestamp >= cutoff (one exactly at the cutoff included) is still there;
\* a call that counts no such document leaves the collection as it is.
C1_PurgeCorrect ==
    [][/\ (script.pc = "cleanup_counted" /\ script'.pc = "cleanup_done"
              /\ ~script'.failed)
          => /\ store' = {d \in store : d.timestamp >= script.cutoff}
             /\ \A d \in store' : ~(d.timestamp < script.cutoff)
       /\ (script.pc = "stats_done" /\ script'.pc = "cleanup_counted")
          => script'.cutoff = now - script'.days
       /\ (script.pc = "stats_done" /\ script'.pc = "cleanup_done"
              /\ ~script'.failed /\ ~demo_mode)
          => /\ store' = store
             /\ \A d \in store : d.timestamp >= now - script'.days]_vars

\* a purge that deleted documents and left one that is exactly at the cutoff
C1_Witness ==
    /\ script.pc = "cleanup_done"
    /\ script.result > 0
    /\ script.days > 0
    /\ \E d \in store : d.timestamp = script.cutoff

\* C4: a call of cleanup_old_data with days <= 0 issues no store operation
\* (it is rejected before its count and its delete).
C4_InvalidWindowRejected ==
    (script.pc \in {"cleanup_counted", "cleanup_done"} /\ script.days <= 0)
        => script.store_ops = 0

\* the single TTL rule of the collection, if any
EffectiveWindow == {i.expireAfterSeconds : i \in indexes}

\* a step in which one of the install sites reports its create_index as done
InstallDone ==
    \/ script.pc = "start" /\ script'.install = "ok"
    \/ gen.pc = "stopped" /\ gen'.pc = "running"

\* C8: installing the rule where it is already installed leaves the same
\* single 7-day rule, and no install site is refused by the server.
C8_IdempotentInstall ==
    [][/\ Cardinality(indexes') <= 1
       /\ (indexes # {} /\ indexes' # {}) => indexes' = indexes
       /\ InstallDone => indexes' = {TTLIndex(SevenDays)}
       /\ script'.install # "refused"
       /\ gen'.install # "refused"]_vars

\* the dashboard installed the rule on a collection that already had it
C8_Witness ==
    /\ script.pc = "routing"
    /\ script.install = "ok"
    /\ script.had_index
    /\ indexes = {TTLIndex(SevenDays)}

C10_UnreachableZero ==
    /\ (script.pc = "cleanup_done" /\ (demo_mode \/ script.failed))
          => script.result = 0
    /\ (script.pc = "stats_done" /\ (demo_mode \/ script.failed))
          => script.stats = NoStats

\* the delete of a purge raised after its count had found documents
C10_Witness ==
    /\ script.pc = "cleanup_done"
    /\ script.failed
    /\ script.count_before > 0
    /\ store # {}

\* C14: a record with a metric_type outside the four types that reaches the
\* import is rejected: it is never stored.
C14_MalformedRejected ==
    \A d \in store : d.metric_type \in MetricTypes

\* C15: a stored document leaves the collection (or is replaced by a
\* changed one) only through retention: in a step of the TTL monitor when it
\* is older than the window of the rule, or in the delete of a purge when it
\* is older than the purge's cutoff.
C15_OnlyRetentionRemoves ==
    [][\A d \in store \ store' :
          \/ \E i \in indexes : d.timestamp + i.expireAfterSeconds <= now
          \/ script.pc = "cleanup_counted" /\ d.timestamp < script.cutoff]_vars

\* C16: whatever the TTL monitor does between the count and the delete of a
\* purge, the purge returns the number of documents its own delete removed
\* (what the monitor took before is not in it), and no step of a purge changes
\* the installed rule.
C16_SweepWithTTL ==
    [][/\ (script.pc = "cleanup_counted" /\ script'.pc = "cleanup_done"
              /\ ~script'.failed)
          => /\ script'.result = Cardinality(store \ store')
             /\ store' \subseteq store
       /\ (script.pc \in {"stats_done", "cleanup_counted"}
              /\ script'.pc \in {"cleanup_counted", "cleanup_done"}
              /\ script' # script)
          => indexes' = indexes]_vars

\* the purge counted documents, the monitor took some of them first, and the
\* purge reports fewer than it counted
C16_Witness ==
    /\ script.pc = "cleanup_done"
    /\ ~script.failed
    /\ script.days > 0
    /\ script.result < script.count_before
    /\ indexes = {TTLIndex(SevenDays)}
    /\ store # {}
    /\ Expired(store, indexes) = {}

\* C27 as stated: in every result of get_data_stats total_records is 0
\* exactly when there is no oldest record.
C27_ZeroIffNone ==
    script.pc = "stats_done"
        => (script.stats.total_records = 0
               <=> script.stats.oldest_record = None)

\* C27, amended: it is so in demo mode and after an exception (0 and None),
\* and whenever the collection is empty at the oldest-record query exactly
\* when the count was 0, as it is when nothing runs between the two queries.
C27_ZeroIffNoneWhenStable ==
    [][/\ (script.pc = "stats_counted" /\ script'.pc = "stats_done")
          => /\ script'.failed => script'.stats = NoStats
             /\ (~script'.failed
                    /\ (script.stats.total_records = 0 <=> store = {}))
                => (script'.stats.total_records = 0
                       <=> script'.stats.oldest_record = None)
       /\ (script.pc = "routing" /\ script'.pc = "stats_done")
          => script'.stats = NoStats]_vars

\* a result with a count that is no longer the size of the collection
C27_Witness ==
    /\ script.pc = "stats_done"
    /\ ~demo_mode /\ ~script.failed
    /\ script.stats.total_records > 0
    /\ script.stats.total_records # Cardinality(store)
    /\ script.stats.oldest_record # None

\* C28: cleanup_old_data issues its delete only after a positive count; the
\* delete removes the documents older than the cutoff that are in the
\* collection then, and the call returns their number, also when a writer
\* added such documents after the count; a call whose count was 0 removes
\* nothing and returns 0.
C28_ReturnsOwnDeletes ==
    [][/\ script'.pc = "cleanup_counted" => script'.count_before > 0
       /\ script'.store_ops = 2 => script.count_before > 0
       /\ (script.pc = "cleanup_counted" /\ script'.pc = "cleanup_done"
              /\ ~script'.failed)
          => /\ store \ store' = {d \in store : d.timestamp < script.cutoff}
             /\ script'.result = Cardinality(store) - Cardinality(store')
       /\ (script.pc = "stats_done" /\ script'.pc = "cleanup_done")
          => /\ store' = store
             /\ script'.result = 0]_vars

\* a purge that removed more documents than it had counted
C28_Witness ==
    /\ script.pc = "cleanup_done"
    /\ ~script.failed
    /\ script.count_before > 0
    /\ script.result > script.count_before

----------------------------------------------------------------------------
(* Claims about the Live Metrics page (under SpecLive, where no writer runs
   and `store` is what the query of the page read) *)

\* the stored documents of a user, and those of one metric type
DocsOf(user_id) == {d \in store : d.user_id = user_id}

DocsOfType(user_id, metric_type) ==
    {d \in DocsOf(user_id) : d.metric_type = metric_type}

\* the page is shown after a query of a reachable store, outside demo mode
Answered == script.pc = "live" /\ ~demo_mode /\ ~script.failed

RowSet(rows) == {rows[i] : i \in 1..Len(rows)}

\* C2: for a query answered from the store, the latest-value result holds
\* for each metric type T a document of the user of type T with the greatest
\* timestamp among the user's stored documents of type T, and holds nothing
\* for T only if the user has no stored document of type T.
C2_LatestByType ==
    (Answered /\ script.branch = "store") =>
        \A t \in MetricTypes :
            LET mine == DocsOfType(script.user, t)
                latest == GetLatestUserMetrics(script.rows)
            IN  IF mine = {} THEN t \notin DOMAIN latest
                ELSE /\ t \in DOMAIN latest
                     /\ \E d \in mine :
                           /\ d.timestamp = latest[t].timestamp
                           /\ d.value = latest[t].value
                           /\ \A e \in mine : e.timestamp <= d.timestamp

\* C3: a metric card has status "Live" only if its value was read from a
\* stored document; a value of the demo supplier is shown as "Simulated".
C3_LiveOnlyFromStore ==
    script.pc = "live" =>
        \A t \in MetricTypes :
            MetricCards(script.rows)[t].status = "Live"
                => script.branch = "store"

\* C5 as stated: a query of a reachable store that holds no document of the
\* user returns an empty sequence.
C5_EmptyResult ==
    (Answered /\ DocsOf(script.user) = {}) => script.rows = <<>>

\* C5, amended: such a query raises no error and returns the DemoCount rows
\* of the demo supplier for that user, never an empty sequence.
C5_DemoInsteadOfEmpty ==
    (Answered /\ DocsOf(script.user) = {}) =>
        /\ script.branch = "empty"
        /\ Len(script.rows) = DemoCount
        /\ \A i \in 1..Len(script.rows) :
              /\ script.rows[i].user_id = script.user
              /\ script.rows[i].metric_type \in MetricTypes
              /\ script.rows[i].value \in DemoValues
              /\ script.rows[i].timestamp = now

\* a reachable store with documents of another user only
C5_Witness ==
    /\ Answered
    /\ DocsOf(script.user) = {}
    /\ store # {}

\* the rows are documents of the user, newest first, min(limit, n) of them,
\* and no stored document of the user that is left out is newer than one
\* that is returned
RecentOf(rows, user_id) ==
    /\ RowSet(rows) \subseteq DocsOf(user_id)
    /\ Len(rows) = Min(QueryLimit, Cardinality(DocsOf(user_id)))
    /\ Cardinality(RowSet(rows)) = Len(rows)
    /\ \A i \in 1..Len(rows), j \in 1..Len(rows) :
          i < j => rows[i].timestamp >= rows[j].timestamp
    /\ \A d \in RowSet(rows), e \in DocsOf(user_id) \ RowSet(rows) :
          e.timestamp <= d.timestamp

\* C6 as stated: whatever the number of stored documents of the user.
C6_RecentAny == Answered => RecentOf(script.rows, script.user)

\* C6, amended: for a user with at least one stored document (with none the
\* query returns the rows of the demo supplier: C5).
C6_RecentOfStored ==
    (Answered /\ DocsOf(script.user) # {})
        => /\ script.branch = "store"
           /\ RecentOf(script.rows, script.user)

\* more documents of the user than the limit, with different timestamps
C6_Witness ==
    /\ Answered
    /\ Cardinality(DocsOf(script.user)) > QueryLimit
    /\ \E d \in DocsOf(script.user), e \in DocsOf(script.user) :
          d.timestamp < e.timestamp

\* C7: the trend of a metric type shows the min(TrendLimit, k) newest of the
\* user's k stored documents of that type, whatever the user's documents of
\* the other types.
C7_TrendMostRecent ==
    (Answered /\ script.branch = "store") =>
        \A t \in MetricTypes :
            LET mine == DocsOfType(script.user, t)
                shown == RowSet(Trend(script.rows, t))
            IN  /\ shown \subseteq mine
                /\ Cardinality(shown) = Min(TrendLimit, Cardinality(mine))
                /\ \A d \in shown, e \in mine \ shown :
                      e.timestamp <= d.timestamp

\* C11: when the dashboard is in demo mode, when the find raises, or when the
\* collection holds no document of the user, get_user_real_time_metrics
\* returns (the page is rendered) the DemoCount rows of the demo supplier for
\* that user: the result is never empty.
C11_FallbackNonEmpty ==
    (script.pc = "live"
        /\ (demo_mode \/ script.failed \/ DocsOf(script.user) = {}))
    => /\ script.branch \in {"demo", "error", "empty"}
       /\ script.rows # <<>>
       /\ Len(script.rows) = DemoCount
       /\ \A i \in 1..Len(script.rows) : script.rows[i].user_id = script.user

\* the find raised although the collection holds documents of the user
C11_Witness ==
    /\ script.pc = "live"
    /\ ~demo_mode
    /\ script.failed
    /\ DocsOf(script.user) # {}

----------------------------------------------------------------------------
(* Claims about the writers (under SpecGen) *)

\* C12: the generator's loop exits on an interrupt only between two batches,
\* so that the batches and records it reports on exit (batch_count and
\* batch_count * 2000) are those this run has written to the collection.
C12_StopBetweenTicks ==
    (gen.pc = "stopped" /\ gen.exit = "interrupt")
        => gen.written = gen.batch_count * BatchSize

----------------------------------------------------------------------------
(* Claims about the generated values *)

\* C19 (under SpecValue): with base = (number of the user id mod 40) + 60,
\* every heart_rate value _generate_realistic_value returns lies in
\* [base, base + 20] and every steps value in [max(0, base - 40), base].
C19_RangeRule ==
    sample # NoSample =>
        LET base == (UserTable[sample.user_id] % 40) + 60
            floor == IF base - 40 > 0 THEN base - 40 ELSE 0
        IN  /\ sample.metric_type = "heart_rate"
                => (base <= sample.value /\ sample.value <= base + 20)
            /\ sample.metric_type = "steps"
                => (floor <= sample.value /\ sample.value <= base)

\* a steps value at the top of its range for the user id where % 40 wraps
C19_Witness ==
    /\ sample.user_id = "user-0040"
    /\ sample.metric_type = "steps"
    /\ sample.value = 60

\* C29 (under SpecValue): for every user id the base lies in 60..99, the
\* range of each of the four metric types has its lower end at or below its
\* upper end, so that no call raises on an empty range; every
\* calories_burned and active_minutes value is positive, and a call with any
\* other metric type returns 0.
C29_RangesNotEmpty ==
    sample # NoSample =>
        LET base == (UserTable[sample.user_id] % 40) + 60
            fifteenth == IF base \div 15 > 1 THEN base \div 15 ELSE 1
            thirtieth == IF base \div 30 > 1 THEN base \div 30 ELSE 1
        IN  /\ 60 <= base /\ base <= 99
            /\ fifteenth <= base \div 8
            /\ thirtieth <= base \div 20
            /\ sample.value # ValueError
            /\ sample.metric_type = "calories_burned"
                => (fifteenth <= sample.value /\ sample.value > 0)
            /\ sample.metric_type = "active_minutes"
                => (thirtieth <= sample.value /\ sample.value > 0)
            /\ sample.metric_type \notin MetricTypes => sample.value = 0

\* the smallest calories_burned value of a user whose base is 60
C29_Witness ==
    /\ sample.user_id = "user-0000"
    /\ sample.metric_type = "calories_burned"
    /\ sample.value = 4

\* C20 (under SpecLive): every row of the demo supplier has a value inside
\* the range the generator's rule gives for the row's user and metric type.
C20_DemoUsesRangeRule ==
    (script.pc = "live" /\ script.branch \in {"demo", "error", "empty"})
        => \A i \in 1..Len(script.rows) :
              script.rows[i].value
                  \in GenerateRealisticValue(script.rows[i].user_id,
                                             script.rows[i].metric_type)

\* C21 (under SpecGen): the insert of a tick adds exactly one document for
\* every pair of a user of the roster and a metric type, none missing and
\* none twice, all with the timestamp of the tick, in one step.
C21_BatchComposition ==
    [][(gen.pc = "running" /\ gen'.pc = "inserting")
          => LET batch == store' \ store IN
             /\ \A u \in Users, t \in MetricTypes :
                   Cardinality({d \in batch :
                                   d.user_id = u /\ d.metric_type = t}) = 1
             /\ \A d \in batch :
                   /\ d.user_id \in Users
                   /\ d.metric_type \in MetricTypes
                   /\ d.timestamp = now
                   /\ d.session_id = gen.batch_count
             /\ Cardinality(batch) = Cardinality(Users) * Cardinality(MetricTypes)]_vars

\* the batch of a tick is in the collection next to an imported document
C21_Witness ==
    /\ gen.pc = "inserting"
    /\ \A u \in Users, t \in MetricTypes :
          \E d \in store : /\ d.user_id = u /\ d.metric_type = t
                           /\ d.timestamp = now /\ d.session_id = gen.batch_count
    /\ \E d \in store : d.session_id \in FileSessions

\* C22 (under SpecGen): after a batch the loop sleeps max(0, tick - elapsed):
\* never a negative time, nothing when the round trip took the tick or
\* longer, and the loop goes on to its next tick without an error.
C22_TickPacing ==
    /\ gen.exit # "sleep_error"
    /\ gen.sleep >= 0
    /\ (gen.pc = "running" /\ gen.batch_count > 0)
        => /\ gen.elapsed >= TickInterval => gen.sleep = 0
           /\ gen.elapsed < TickInterval
                 => gen.sleep = TickInterval - gen.elapsed

\* a batch whose round trip took longer than the tick, and the loop running
C22_Witness ==
    /\ gen.pc = "running"
    /\ gen.batch_count > 0
    /\ gen.elapsed > TickInterval
    /\ gen.sleep = 0

----------------------------------------------------------------------------
(* Claims about the refresh cycle (under SpecRefresh) *)

\* C23: the refresh rate starts at 10 and is always within 5..30 seconds;
\* the page is queried and rendered once per script run; the script is run
\* again by the auto-refresh only from its sleep, after the whole
\* refresh_rate has been waited, so no refresh begins while the run before it
\* is rendering or waiting.
C23_CooperativeRefresh ==
    /\ refresh_rate = RefreshDefault
    /\ [][/\ refresh_rate' \in RefreshMin..RefreshMax
          /\ (script'.trigger = "auto" /\ script' # script)
                => /\ script.pc = "sleeping"
                   /\ script.waited = refresh_rate
                   /\ script'.pc = "start"
          /\ script'.pc = "live" => script.pc \in {"routing", "live"}
          /\ script'.waited <= refresh_rate]_vars

\* an auto-refresh after the longest wait the slider offers
C23_Witness ==
    /\ script.pc = "start"
    /\ script.trigger = "auto"
    /\ refresh_rate = RefreshMax

----------------------------------------------------------------------------
(* Claims about the pages of the dashboard (under SpecPages) *)

\* C24: with the store reachable and nothing else running, get_data_stats
\* returns the number of documents of the collection as total_records and
\* the smallest timestamp of them as oldest_record, none for an empty
\* collection.
C24_StatsOfStore ==
    (script.pc = "stats_done" /\ ~demo_mode /\ ~script.failed)
        => /\ script.stats.total_records = Cardinality(store)
           /\ store = {} => script.stats.oldest_record = None
           /\ store # {}
                 => \E d \in store :
                       /\ script.stats.oldest_record = <<d.timestamp>>
                       /\ \A e \in store : d.timestamp <= e.timestamp

\* statistics of a collection with documents of different timestamps
C24_Witness ==
    /\ script.pc = "stats_done"
    /\ ~demo_mode /\ ~script.failed
    /\ \E d \in store, e \in store : d.timestamp < e.timestamp

\* C26: after init_connections demo_mode is False only if PostgreSQL and the
\* MongoDB ping both succeeded, and then mongo_db is set; MongoDB is not tried
\* when PostgreSQL failed; in demo mode setup_data_retention installs
\* nothing, and get_data_stats, cleanup_old_data and
\* get_user_real_time_metrics return without an operation on the store.
C26_DemoModeGuard ==
    /\ script.pc = "routing"
          => /\ ~demo_mode => (script.pg_ok /\ script.mongo_tried
                                 /\ script.has_mongo_db)
             /\ ~script.pg_ok => (demo_mode /\ ~script.mongo_tried)
             /\ demo_mode <=> script.install = "skipped"
    /\ demo_mode
          => /\ script.pc \notin {"stats_counted", "cleanup_counted"}
             /\ script.store_ops = 0
             /\ ~script.failed
             /\ script.pc = "live" => script.branch = "demo"
             /\ script.pc = "stats_done" => script.stats = NoStats
             /\ script.pc = "cleanup_done" => script.result = 0

\* PostgreSQL connected, MongoDB did not: demo mode with mongo_db set
C26_Witness ==
    /\ script.pc = "routing"
    /\ demo_mode
    /\ script.pg_ok
    /\ script.has_mongo_db
    /\ store # {}

----------------------------------------------------------------------------
(* Claims about the round trip of a record (under SpecRoundTrip) *)

====
